---------------------------- MODULE Spec2Model ----------------------------
(***************************************************************************)
(* Workout Logger (app.py): the payload validator and the SQLite-backed    *)
(* workout store (workouts -> exercises -> sets).                          *)
(*                                                                         *)
(* Text is a sequence of one-character strings, so that strip(), int(),    *)
(* float() and strptime() are computed and not assumed.  A JSON/Python     *)
(* value is a record [t, n, s]: a tag, a number and a text.                *)
(*   t = "int"     n is the integer                                        *)
(*   t = "float"   n is the value in tenths (57 is 5.7)                    *)
(*   t = "inf"     n is the sign (1 or -1) of a float infinity             *)
(*   t = "nan"     a float NaN                                             *)
(*   t = "bigint"  the integer 2^63: above SQLite's INTEGER, below the     *)
(*                 largest float                                           *)
(*   t = "hugeint" the integer 10^400: above the largest float             *)
(*   t = "bigfloat" the float 2.0^63                                       *)
(*   t = "bool"    n is 0 or 1                                             *)
(*   t = "str"     s is the text                                           *)
(*   t = "list"    a list of n elements                                    *)
(*   t = "none"    None / JSON null                                        *)
(*   t = "missing" the key is absent from its dict                         *)
(***************************************************************************)
EXTENDS Integers, Sequences, FiniteSets, TLC

VARIABLES
    workouts,      \* table workouts: set of rows
    exercises,     \* table exercises: set of rows
    sets,          \* table sets: set of rows
    seq,           \* sqlite_sequence: last AUTOINCREMENT id of each table
    lastOp,        \* the store call that ran last, with its outcome
    clock,         \* the UTC clock in seconds; each store call takes one second
    bypassed,      \* TRUE once create/update was called with an unvalidated payload
    vin,           \* validator harness: the payload under validation
    vout,          \* validator harness: the outcome of validate_workout_payload
    vpc,           \* validator harness: "call", then "returned" or "raised"
    gpc,           \* reader (get_workout): position in the function
    gid,           \* reader: the workout_id argument
    gw,            \* reader: the workouts row fetched
    gex,           \* reader: the exercises rows fetched, in order
    gdone,         \* reader: the exercise dicts assembled so far
    gres,          \* reader: the value returned
    gsnaps         \* reader: the committed trees of gid seen during the call

storeVars == <<workouts, exercises, sets, seq, lastOp, clock, bypassed>>
validVars == <<vin, vout, vpc>>
readVars  == <<gpc, gid, gw, gex, gdone, gres, gsnaps>>
vars      == <<workouts, exercises, sets, seq, lastOp, clock, bypassed,
               vin, vout, vpc, gpc, gid, gw, gex, gdone, gres, gsnaps>>

-----------------------------------------------------------------------------
(* Python values *)

PyNone     == [t |-> "none",    n |-> 0, s |-> <<>>]
PyMissing  == [t |-> "missing", n |-> 0, s |-> <<>>]
PyNaN      == [t |-> "nan",     n |-> 0, s |-> <<>>]
PyBigInt   == [t |-> "bigint",  n |-> 0, s |-> <<>>]
PyHugeInt  == [t |-> "hugeint", n |-> 0, s |-> <<>>]
PyBigFloat == [t |-> "bigfloat", n |-> 0, s |-> <<>>]
PyInt(k)   == [t |-> "int",   n |-> k, s |-> <<>>]
PyFloat(k) == [t |-> "float", n |-> k, s |-> <<>>]
PyInf(sg)  == [t |-> "inf",   n |-> sg, s |-> <<>>]
PyBool(b)  == [t |-> "bool",  n |-> b, s |-> <<>>]
PyStr(x)   == [t |-> "str",   n |-> 0, s |-> x]
PyList(k)  == [t |-> "list",  n |-> k, s |-> <<>>]

Digits == <<"0", "1", "2", "3", "4", "5", "6", "7", "8", "9">>

IsDigit(c) == \E i \in 1..10 : Digits[i] = c

DigitVal(c) == (CHOOSE i \in 1..10 : Digits[i] = c) - 1

AllDigits(x) == Len(x) > 0 /\ \A i \in 1..Len(x) : IsDigit(x[i])

RECURSIVE NumVal(_)
NumVal(x) == IF x = <<>> THEN 0
             ELSE 10 * NumVal(SubSeq(x, 1, Len(x) - 1)) + DigitVal(x[Len(x)])

\* str.strip(): leading and trailing whitespace removed
RECURSIVE LStrip(_)
LStrip(x) == IF x # <<>> /\ Head(x) = " " THEN LStrip(Tail(x)) ELSE x

RECURSIVE RStrip(_)
RStrip(x) == IF x # <<>> /\ x[Len(x)] = " " THEN RStrip(SubSeq(x, 1, Len(x) - 1)) ELSE x

Strip(x) == RStrip(LStrip(x))

\* truthiness, as used by `x or ""`
Truthy(v) ==
    CASE v.t \in {"none", "missing"} -> FALSE
      [] v.t \in {"int", "float", "bool", "list"} -> v.n # 0
      [] v.t = "str" -> v.s # <<>>
      [] OTHER -> TRUE

\* the text of a decimal integer, as str() prints it
RECURSIVE NatText(_)
NatText(k) == IF k < 10 THEN <<Digits[k + 1]>>
              ELSE NatText(k \div 10) \o <<Digits[(k % 10) + 1]>>

IntText(k) == IF k < 0 THEN <<"-">> \o NatText(-k) ELSE NatText(k)

\* str(v)
StrOf(v) ==
    CASE v.t = "str" -> v.s
      [] v.t = "int" -> IntText(v.n)
      [] v.t = "float" ->
            (IF v.n < 0 THEN <<"-">> ELSE <<>>)
            \o NatText((IF v.n < 0 THEN -v.n ELSE v.n) \div 10) \o <<".">>
            \o NatText((IF v.n < 0 THEN -v.n ELSE v.n) % 10)
      [] v.t = "bool" -> IF v.n = 1 THEN <<"T", "r", "u", "e">>
                         ELSE <<"F", "a", "l", "s", "e">>
      [] v.t \in {"none", "missing"} -> <<"N", "o", "n", "e">>
      [] v.t = "nan" -> <<"n", "a", "n">>
      [] v.t = "inf" -> (IF v.n < 0 THEN <<"-">> ELSE <<>>) \o <<"i", "n", "f">>
      [] v.t = "list" -> <<"[", "]">>
      [] OTHER -> <<"9">>

\* the outcome of a conversion: the exception raised ("" for none) and the value
Conv(e, v) == [exc |-> e, v |-> v]

Unsigned(x) == IF x # <<>> /\ Head(x) \in {"+", "-"} THEN Tail(x) ELSE x

SignOf(x) == IF x # <<>> /\ Head(x) = "-" THEN -1 ELSE 1

\* int(text)
ParseInt(x) ==
    LET u == Strip(x)
        d == Unsigned(u)
    IN  IF AllDigits(d) THEN Conv("", PyInt(SignOf(u) * NumVal(d)))
        ELSE Conv("ValueError", PyNone)

\* int(v)
IntOf(v) ==
    CASE v.t = "int" -> Conv("", v)
      [] v.t = "bool" -> Conv("", PyInt(v.n))
      [] v.t = "float" ->
            Conv("", PyInt(IF v.n < 0 THEN -((-v.n) \div 10) ELSE v.n \div 10))
      [] v.t = "bigfloat" -> Conv("", PyBigInt)
      [] v.t = "inf" -> Conv("OverflowError", PyNone)
      [] v.t = "nan" -> Conv("ValueError", PyNone)
      [] v.t \in {"bigint", "hugeint"} -> Conv("", v)
      [] v.t = "str" -> ParseInt(v.s)
      [] OTHER -> Conv("TypeError", PyNone)

\* float(text): digits with at most one fractional digit, "nan", "inf"
ParseFloat(x) ==
    LET u == Strip(x)
        d == Unsigned(u)
        dot == IF \E i \in 1..Len(d) : d[i] = "."
               THEN CHOOSE i \in 1..Len(d) : d[i] = "." /\ \A j \in 1..(i - 1) : d[j] # "."
               ELSE 0
        ip == IF dot = 0 THEN d ELSE SubSeq(d, 1, dot - 1)
        fp == IF dot = 0 THEN <<>> ELSE SubSeq(d, dot + 1, Len(d))
    IN  CASE d = <<"n", "a", "n">> -> Conv("", PyNaN)
          [] d = <<"i", "n", "f">> -> Conv("", PyInf(SignOf(u)))
          [] dot = 0 /\ AllDigits(d) -> Conv("", PyFloat(SignOf(u) * 10 * NumVal(d)))
          [] dot # 0 /\ (ip = <<>> \/ AllDigits(ip)) /\ (fp = <<>> \/ AllDigits(fp))
             /\ Len(fp) <= 1 /\ Len(ip) + Len(fp) > 0 ->
                Conv("", PyFloat(SignOf(u) * (10 * NumVal(ip) + NumVal(fp))))
          [] OTHER -> Conv("ValueError", PyNone)

\* float(v)
FloatOf(v) ==
    CASE v.t = "float" -> Conv("", v)
      [] v.t \in {"inf", "nan", "bigfloat"} -> Conv("", v)
      [] v.t \in {"int", "bool"} -> Conv("", PyFloat(10 * v.n))
      [] v.t = "bigint" -> Conv("", PyBigFloat)
      [] v.t = "hugeint" -> Conv("OverflowError", PyNone)
      [] v.t = "str" -> ParseFloat(v.s)
      [] OTHER -> Conv("TypeError", PyNone)

\* x < k for a converted number x and a small integer k
NumLess(x, k) ==
    CASE x.t = "int" -> x.n < k
      [] x.t = "float" -> x.n < 10 * k
      [] x.t = "inf" -> x.n < 0
      [] OTHER -> FALSE          \* nan compares false; bigint, hugeint, bigfloat are large

-----------------------------------------------------------------------------
(* _parse_iso_date *)

IsLeap(y) == (y % 4 = 0 /\ y % 100 # 0) \/ y % 400 = 0

DaysIn(y, m) ==
    CASE m \in {4, 6, 9, 11} -> 30
      [] m = 2 -> IF IsLeap(y) THEN 29 ELSE 28
      [] OTHER -> 31

Pad(k, w) == LET x == NatText(k)
             IN  [i \in 1..(w - Len(x)) |-> "0"] \o x

\* date.isoformat()
IsoFormat(y, m, d) == Pad(y, 4) \o <<"-">> \o Pad(m, 2) \o <<"-">> \o Pad(d, 2)

\* %m: 1[0-2]|0[1-9]|[1-9]
MonthTok(x) == AllDigits(x) /\ NumVal(x) \in 1..12

\* %d: 3[0-1]|[1-2]\d|0[1-9]|[1-9]| [1-9]
DayTok(x) == \/ AllDigits(x) /\ NumVal(x) \in 1..31
             \/ Len(x) = 2 /\ x[1] = " " /\ IsDigit(x[2]) /\ x[2] # "0"

DayVal(x) == IF x[1] = " " THEN DigitVal(x[2]) ELSE NumVal(x)

\* the (month length, day length) splits under which x matches %Y-%m-%d whole
DateSplits(x) ==
    {sp \in (1..2) \X (1..2) :
        /\ Len(x) = 6 + sp[1] + sp[2]
        /\ AllDigits(SubSeq(x, 1, 4))
        /\ x[5] = "-"
        /\ x[6 + sp[1]] = "-"
        /\ MonthTok(SubSeq(x, 6, 5 + sp[1]))
        /\ DayTok(SubSeq(x, 7 + sp[1], Len(x)))}

\* datetime.strptime(x, "%Y-%m-%d").date().isoformat(), or ValueError
Strptime(x) ==
    IF DateSplits(x) = {} THEN Conv("ValueError", PyNone)
    ELSE LET sp == CHOOSE q \in DateSplits(x) : TRUE
             y == NumVal(SubSeq(x, 1, 4))
             m == NumVal(SubSeq(x, 6, 5 + sp[1]))
             d == DayVal(SubSeq(x, 7 + sp[1], Len(x)))
         IN  IF y >= 1 /\ d <= DaysIn(y, m) THEN Conv("", PyStr(IsoFormat(y, m, d)))
             ELSE Conv("ValueError", PyNone)

ParseIsoDate(value) ==
    IF value.t \in {"none", "missing"} THEN PyNone
    ELSE IF value.t = "str"
         THEN LET x == Strip(value.s)
              IN  IF x = <<>> THEN PyNone
                  ELSE IF Strptime(x).exc = "" THEN Strptime(x).v ELSE PyNone
         ELSE PyNone

-----------------------------------------------------------------------------
(* Payloads.  A collection is [kind, items]: kind "list" is a list whose   *)
(* elements are items; any other kind is a value that is not a list.  A    *)
(* payload, an exercise or a set entry of kind "dict" is a dict holding    *)
(* the fields shown; any other kind is a value that is not a dict.         *)

List(items) == [kind |-> "list", items |-> items]

NotAList(kind) == [kind |-> kind, items |-> <<>>]

SetEntry(reps, weight) == [kind |-> "dict", reps |-> reps, weight |-> weight]

NotASet == [kind |-> "other", reps |-> PyMissing, weight |-> PyMissing]

Exercise(name, sets_) == [kind |-> "dict", name |-> name, sets |-> sets_]

NotAnExercise == [kind |-> "other", name |-> PyMissing, sets |-> NotAList("missing")]

Payload(workout_date, title, exs) ==
    [kind |-> "dict", workout_date |-> workout_date, title |-> title, exercises |-> exs]

NotAPayload ==
    [kind |-> "list", workout_date |-> PyMissing, title |-> PyMissing,
     exercises |-> NotAList("missing")]

-----------------------------------------------------------------------------
(* validate_workout_payload.  The outcome is [exc, errors]: the exception  *)
(* that escaped ("" for none) and the list returned.  An error message is  *)
(* [code, ei, si, name]: which message, the 1-based exercise and set        *)
(* positions it prints (0 when it prints none) and the exercise name it    *)
(* prints (empty when it prints the position instead).                     *)

Err(code, ei, si, name) == [code |-> code, ei |-> ei, si |-> si, name |-> name]

VOut(exc, errors) == [exc |-> exc, errors |-> errors]

\* two validations in sequence: the first exception escapes, else the lists join
Both(here, rest) ==
    IF here.exc # "" THEN here
    ELSE IF rest.exc # "" THEN rest
    ELSE VOut("", here.errors \o rest.errors)

\* the two `try` blocks and the two `if` tests on their results ri and wf: only
\* TypeError and ValueError are caught
SetVerdict(ri, wf, si, ei, name) ==
    IF ri.exc \notin {"", "TypeError", "ValueError"} THEN VOut(ri.exc, <<>>)
    ELSE IF wf.exc \notin {"", "TypeError", "ValueError"} THEN VOut(wf.exc, <<>>)
    ELSE VOut("", (IF ri.exc # "" \/ NumLess(ri.v, 1)
                   THEN <<Err("reps", ei, si, name)>> ELSE <<>>)
                  \o (IF wf.exc # "" \/ NumLess(wf.v, 0)
                      THEN <<Err("weight", ei, si, name)>> ELSE <<>>))

\* the body of `for si, s in enumerate(sets_)` for the entry at index si
ValidateSet(s, si, ei, name) ==
    IF s.kind # "dict" THEN VOut("", <<Err("set invalid", ei, si, name)>>)
    ELSE SetVerdict(IntOf(s.reps), FloatOf(s.weight), si, ei, name)

RECURSIVE ValidateSets(_, _, _, _)
ValidateSets(items, si, ei, name) ==
    IF si > Len(items) THEN VOut("", <<>>)
    ELSE Both(ValidateSet(items[si], si, ei, name), ValidateSets(items, si + 1, ei, name))

\* name = str(ex.get("name") or "").strip()
NameOf(ex) == IF Truthy(ex.name) THEN Strip(StrOf(ex.name)) ELSE <<>>

\* the checks on one exercise dict, given its stripped name
ExerciseVerdict(ex, ei, name) ==
    Both(VOut("", IF name = <<>> THEN <<Err("name required", ei, 0, <<>>)>> ELSE <<>>),
         IF ex.sets.kind # "list" \/ Len(ex.sets.items) = 0
         THEN VOut("", <<Err("set required", ei, 0, name)>>)
         ELSE ValidateSets(ex.sets.items, 1, ei, name))

\* the body of `for ei, ex in enumerate(exercises)` for the exercise at index ei
ValidateExercise(ex, ei) ==
    IF ex.kind # "dict" THEN VOut("", <<Err("exercise invalid", ei, 0, <<>>)>>)
    ELSE ExerciseVerdict(ex, ei, NameOf(ex))

RECURSIVE ValidateExercises(_, _)
ValidateExercises(items, ei) ==
    IF ei > Len(items) THEN VOut("", <<>>)
    ELSE Both(ValidateExercise(items[ei], ei), ValidateExercises(items, ei + 1))

\* a validator without the test for an empty exercise list
ValidateAnyLength(payload) ==
    IF payload.kind # "dict" THEN VOut("AttributeError", <<>>)
    ELSE Both(VOut("", IF ParseIsoDate(payload.workout_date).t # "str"
                       THEN <<Err("date required", 0, 0, <<>>)>> ELSE <<>>),
              IF payload.exercises.kind # "list"
              THEN VOut("", <<Err("exercise required", 0, 0, <<>>)>>)
              ELSE ValidateExercises(payload.exercises.items, 1))

validate_workout_payload(payload) ==
    IF payload.kind # "dict" THEN VOut("AttributeError", <<>>)
    ELSE Both(VOut("", IF ParseIsoDate(payload.workout_date).t # "str"
                       THEN <<Err("date required", 0, 0, <<>>)>> ELSE <<>>),
              IF payload.exercises.kind # "list" \/ Len(payload.exercises.items) = 0
              THEN VOut("", <<Err("exercise required", 0, 0, <<>>)>>)
              ELSE ValidateExercises(payload.exercises.items, 1))

\* what the caller's test `if errors:` lets through
NoErrors(out) == out.exc = "" /\ out.errors = <<>>

Accepted(payload) == NoErrors(validate_workout_payload(payload))

-----------------------------------------------------------------------------
(* Inputs of the validator harness *)

Squat == <<"S", "q", "u", "a", "t">>

BenchPadded == <<" ", "B", "e", "n", "c", "h", " ">>

Blank == <<" ", " ">>

DateTexts ==
    {<<"2", "0", "2", "4", "-", "0", "1", "-", "1", "5">>,
     <<" ", "2", "0", "2", "4", "-", "0", "1", "-", "1", "5", " ">>,
     <<"2", "0", "2", "4", "-", "1", "-", "5">>,
     <<"2", "0", "2", "4", "-", "0", "1", "-", " ", "5">>,
     <<"2", "0", "2", "4", "-", "0", "2", "-", "2", "9">>,
     <<"2", "0", "2", "3", "-", "0", "2", "-", "2", "9">>,
     <<"2", "0", "2", "4", "-", "0", "2", "-", "3", "0">>,
     <<"2", "0", "2", "4", "-", "1", "3", "-", "0", "1">>,
     <<"2", "4", "-", "0", "1", "-", "1", "5">>,
     <<"0", "0", "0", "0", "-", "0", "1", "-", "0", "1">>,
     <<"0", "1", "/", "1", "5", "/", "2", "0", "2", "4">>,
     <<"2", "0", "2", "4", "-", "0", "1", "-", "1", "5", "x">>,
     <<>>,
     <<" ", " ">>}

DateInputs == {PyStr(x) : x \in DateTexts} \cup {PyNone, PyMissing, PyInt(20240115)}

GoodDate == PyStr(<<"2", "0", "2", "4", "-", "0", "1", "-", "1", "5">>)

RepsInputs ==
    {PyInt(5), PyInt(1), PyInt(0), PyInt(-1), PyFloat(57), PyFloat(15), PyFloat(5),
     PyFloat(-5), PyBool(1), PyInf(1), PyNaN, PyBigInt, PyNone, PyMissing, PyList(1),
     PyStr(<<"5">>), PyStr(<<" ", "7", " ">>), PyStr(<<"-", "3">>), PyStr(<<"5", ".", "0">>), PyStr(<<"a", "b", "c">>), PyStr(<<>>)}

WeightInputs ==
    {PyInt(225), PyInt(0), PyInt(-1), PyFloat(1355), PyFloat(-5), PyNaN, PyInf(1),
     PyInf(-1), PyBigInt, PyHugeInt, PyNone, PyMissing,
     PyStr(<<"1", ".", "5">>), PyStr(<<" ", "2", "0", " ">>), PyStr(<<"n", "a", "n">>), PyStr(<<"x">>)}

NameInputs ==
    {PyStr(Squat), PyStr(BenchPadded), PyStr(Blank), PyStr(<<>>), PyNone, PyMissing}

GoodSet == SetEntry(PyInt(5), PyInt(225))

GoodExercise == Exercise(PyStr(Squat), List(<<GoodSet>>))

SetsInputs ==
    {List(<<>>), NotAList("none"), NotAList("missing"), NotAList("int"),
     List(<<NotASet>>), List(<<GoodSet, NotASet>>)}
    \cup {List(<<GoodSet, SetEntry(r, PyInt(0))>>) : r \in {PyInt(0), PyInt(3), PyInf(1)}}
    \cup {List(<<SetEntry(PyInt(0), w), GoodSet>>) : w \in {PyInt(-1), PyHugeInt}}

ExercisesInputs ==
    {List(<<>>), NotAList("none"), NotAList("missing"), NotAList("int"),
     List(<<NotAnExercise>>), List(<<GoodExercise, NotAnExercise>>),
     List(<<GoodExercise, GoodExercise>>)}
    \cup {List(<<Exercise(nm, st), GoodExercise>>) :
            nm \in {PyStr(Squat), PyStr(Blank)}, st \in SetsInputs}
    \cup {List(<<GoodExercise, Exercise(nm, List(<<GoodSet>>))>>) : nm \in NameInputs}

ValidatorInputs ==
    {NotAPayload}
    \cup {Payload(d, PyNone, List(<<GoodExercise>>)) : d \in DateInputs}
    \cup {Payload(d, PyNone, ex) : d \in {GoodDate, PyMissing}, ex \in ExercisesInputs}
    \cup {Payload(GoodDate, PyNone, List(<<Exercise(PyStr(Squat), List(<<SetEntry(r, w)>>))>>)) :
            r \in RepsInputs, w \in WeightInputs}

-----------------------------------------------------------------------------
(* The database.  A workouts row is [id, workout_date, title, created_at,  *)
(* updated_at] with title a "str" or "none" value; an exercises row is     *)
(* [id, workout_id, name, sort_order]; a sets row is [id, exercise_id,     *)
(* set_number, reps, weight] with reps an integer and weight a float       *)
(* value.  seq is sqlite_sequence, which AUTOINCREMENT reads and writes    *)
(* inside the transaction.                                                 *)

DB == [workouts |-> workouts, exercises |-> exercises, sets |-> sets, seq |-> seq]

EmptyDB ==
    [workouts |-> {}, exercises |-> {}, sets |-> {},
     seq |-> [workouts |-> 0, exercises |-> 0, sets |-> 0]]

\* the outcome of a statement or of a block of statements: the exception raised
\* ("" for none), the connection's view of the database, and the value produced
Out(exc, db, ret) == [exc |-> exc, db |-> db, ret |-> ret]

\* PRAGMA foreign_keys = ON, issued on every connection
ForeignKeysOff == FALSE

ForeignKeysOn == TRUE

\* ON DELETE CASCADE from exercises to sets, for the exercises rows gone
CascadeSets(db, gone) ==
    IF ForeignKeysOn
    THEN {s \in db.sets : \A e \in gone : s.exercise_id # e.id}
    ELSE db.sets

\* INSERT INTO workouts (workout_date, title, created_at, updated_at)
InsertWorkout(db, workout_date, title, now) ==
    IF workout_date.t = "none" THEN Out("IntegrityError", db, 0)
    ELSE LET id == db.seq.workouts + 1
         IN  Out("",
                 [db EXCEPT !.workouts = @ \cup {[id |-> id, workout_date |-> workout_date.s,
                                                  title |-> title, created_at |-> now,
                                                  updated_at |-> now]},
                            !.seq.workouts = id],
                 id)

\* INSERT INTO exercises (workout_id, name, sort_order)
InsertExercise(db, workout_id, name, sort_order) ==
    IF ForeignKeysOn /\ \A w \in db.workouts : w.id # workout_id
    THEN Out("IntegrityError", db, 0)
    ELSE LET id == db.seq.exercises + 1
         IN  Out("",
                 [db EXCEPT !.exercises = @ \cup {[id |-> id, workout_id |-> workout_id,
                                                   name |-> name, sort_order |-> sort_order]},
                            !.seq.exercises = id],
                 id)

\* INSERT INTO sets (exercise_id, set_number, reps, weight): the parameters are
\* bound (an integer beyond 64 bits does not bind, a NaN binds as NULL), then the
\* NOT NULL and CHECK constraints of the row are tested
InsertSet(db, exercise_id, set_number, reps, weight) ==
    IF reps.t # "int" THEN Out("OverflowError", db, 0)
    ELSE IF weight.t = "nan" \/ reps.n < 1 \/ NumLess(weight, 0)
    THEN Out("IntegrityError", db, 0)
    ELSE LET id == db.seq.sets + 1
         IN  Out("",
                 [db EXCEPT !.sets = @ \cup {[id |-> id, exercise_id |-> exercise_id,
                                              set_number |-> set_number, reps |-> reps.n,
                                              weight |-> weight]},
                            !.seq.sets = id],
                 id)

\* UPDATE workouts SET workout_date = ?, title = ?, updated_at = ? WHERE id = ?
UpdateWorkoutRow(db, workout_id, workout_date, title, now) ==
    IF \A w \in db.workouts : w.id # workout_id THEN Out("", db, 0)
    ELSE IF workout_date.t = "none" THEN Out("IntegrityError", db, 0)
    ELSE Out("",
             [db EXCEPT !.workouts =
                 {IF w.id = workout_id
                  THEN [w EXCEPT !.workout_date = workout_date.s, !.title = title,
                                 !.updated_at = now]
                  ELSE w : w \in @}],
             1)

\* a DELETE that leaves the rows in place
KeepExercises(db, workout_id) == Out("", db, 0)

\* DELETE FROM exercises WHERE workout_id = ?
DeleteExercises(db, workout_id) ==
    LET gone == {e \in db.exercises : e.workout_id = workout_id}
    IN  Out("", [db EXCEPT !.exercises = @ \ gone, !.sets = CascadeSets(db, gone)],
            Cardinality(gone))

\* DELETE FROM workouts WHERE id = ?
DeleteWorkoutRow(db, workout_id) ==
    LET gone == {w \in db.workouts : w.id = workout_id}
        goneEx == IF ForeignKeysOn
                  THEN {e \in db.exercises : e.workout_id = workout_id}
                  ELSE {}
    IN  Out("", [db EXCEPT !.workouts = @ \ gone, !.exercises = @ \ goneEx,
                           !.sets = CascadeSets(db, goneEx)],
            Cardinality(gone))

-----------------------------------------------------------------------------
(* create_workout, update_workout, delete_workout *)

\* (payload.get("title") or "").strip() or None
TitleArg(payload) ==
    IF ~Truthy(payload.title) THEN Conv("", PyNone)
    ELSE IF payload.title.t # "str" THEN Conv("AttributeError", PyNone)
    ELSE IF Strip(payload.title.s) = <<>> THEN Conv("", PyNone)
    ELSE Conv("", PyStr(Strip(payload.title.s)))

\* _parse_iso_date(payload["workout_date"])
DateArg(payload) ==
    IF payload.workout_date.t = "missing" THEN Conv("KeyError", PyNone)
    ELSE Conv("", ParseIsoDate(payload.workout_date))

\* statements in sequence: an exception ends the block, else next(r) runs on the
\* outcome r of the statement before it
Then(r, next(_)) == IF r.exc # "" THEN r ELSE next(r)

\* the parameter tuple (exercise_id, set_number, int(s["reps"]), float(s["weight"]))
\* evaluated left to right, with ri and wf the two conversions, then the INSERT
InsertSetRow(db, exercise_id, set_number, s, ri, wf) ==
    IF s.reps.t = "missing" THEN Out("KeyError", db, 0)
    ELSE IF ri.exc # "" THEN Out(ri.exc, db, 0)
    ELSE IF s.weight.t = "missing" THEN Out("KeyError", db, 0)
    ELSE IF wf.exc # "" THEN Out(wf.exc, db, 0)
    ELSE InsertSet(db, exercise_id, set_number, ri.v, wf.v)

\* `for set_number, s in enumerate(ex["sets"], start=1)`, from position k on
RECURSIVE InsertSets(_, _, _, _)
InsertSets(db, exercise_id, items, k) ==
    IF k > Len(items) THEN Out("", db, 0)
    ELSE IF items[k].kind # "dict" THEN Out("TypeError", db, 0)
    ELSE Then(InsertSetRow(db, exercise_id, k, items[k],
                           IntOf(items[k].reps), FloatOf(items[k].weight)),
              LAMBDA r : InsertSets(r.db, exercise_id, items, k + 1))

\* ex["sets"] and the loop over it, after the exercises row ins was inserted
InsertSetsOf(ex, ins) ==
    IF ex.sets.kind = "missing" THEN Out("KeyError", ins.db, 0)
    ELSE IF ex.sets.kind # "list" THEN Out("TypeError", ins.db, 0)
    ELSE InsertSets(ins.db, ins.ret, ex.sets.items, 1)

\* `for sort_order, ex in enumerate(exercises, start=1)`, from position k on
RECURSIVE InsertExercises(_, _, _, _)
InsertExercises(db, workout_id, items, k) ==
    IF k > Len(items) THEN Out("", db, 0)
    ELSE IF items[k].kind # "dict" THEN Out("TypeError", db, 0)
    ELSE IF items[k].name.t = "missing" THEN Out("KeyError", db, 0)
    ELSE Then(Then(InsertExercise(db, workout_id, Strip(StrOf(items[k].name)), k),
                   LAMBDA ins : InsertSetsOf(items[k], ins)),
              LAMBDA r : InsertExercises(r.db, workout_id, items, k + 1))

\* exercises = payload["exercises"] and the loop over it
InsertTree(db, workout_id, payload) ==
    IF payload.exercises.kind = "missing" THEN Out("KeyError", db, 0)
    ELSE IF payload.exercises.kind # "list" THEN Out("TypeError", db, 0)
    ELSE InsertExercises(db, workout_id, payload.exercises.items, 1)

\* the value a block produces once its last statement has run
Returning(r, ret) == Out(r.exc, r.db, ret)

\* the body of `with conn:` in create_workout, with the two arguments evaluated
CreateWith(db, payload, date, title, now) ==
    IF date.exc # "" THEN Out(date.exc, db, 0)
    ELSE IF title.exc # "" THEN Out(title.exc, db, 0)
    ELSE Then(InsertWorkout(db, date.v, title.v, now),
              LAMBDA w : Returning(InsertTree(w.db, w.ret, payload), w.ret))

CreateBody(db, payload, now) ==
    IF payload.kind # "dict" THEN Out("TypeError", db, 0)
    ELSE CreateWith(db, payload, DateArg(payload), TitleArg(payload), now)

\* the body of `with conn:` in update_workout, with the two arguments evaluated
UpdateWith(db, workout_id, payload, date, title, now) ==
    IF date.exc # "" THEN Out(date.exc, db, 0)
    ELSE IF title.exc # "" THEN Out(title.exc, db, 0)
    ELSE Then(Then(UpdateWorkoutRow(db, workout_id, date.v, title.v, now),
                   LAMBDA u : DeleteExercises(u.db, workout_id)),
              LAMBDA d : Returning(InsertTree(d.db, workout_id, payload), 1))

UpdateBody(db, workout_id, payload, now) ==
    IF \A w \in db.workouts : w.id # workout_id THEN Out("", db, 0)
    ELSE IF payload.kind # "dict" THEN Out("TypeError", db, 0)
    ELSE UpdateWith(db, workout_id, payload, DateArg(payload), TitleArg(payload), now)

\* cur.rowcount > 0
RowsAffected(d) == Out("", d.db, IF d.ret > 0 THEN 1 ELSE 0)

\* the body of `with conn:` in delete_workout
DeleteBody(db, workout_id) == RowsAffected(DeleteWorkoutRow(db, workout_id))

\* a connection that commits whatever its statements did, also on an exception
CommitAlways(pre, body) == body.db

\* `with conn:` commits when the body completes and rolls back when it raises
Transaction(pre, body) == IF body.exc = "" THEN body.db ELSE pre

\* the call as its caller sees it: the exception, the committed database, the value
Finish(pre, body) ==
    Out(body.exc, Transaction(pre, body), IF body.exc = "" THEN body.ret ELSE 0)

create_workout(db, payload, now) == Finish(db, CreateBody(db, payload, now))

update_workout(db, workout_id, payload, now) ==
    Finish(db, UpdateBody(db, workout_id, payload, now))

delete_workout(db, workout_id) == Finish(db, DeleteBody(db, workout_id))

-----------------------------------------------------------------------------
(* get_workout, list_workouts *)

\* ORDER BY sort_order ASC, id ASC
RECURSIVE OrderExercises(_)
OrderExercises(rows) ==
    IF rows = {} THEN <<>>
    ELSE LET first == CHOOSE r \in rows : \A q \in rows :
                          \/ r.sort_order < q.sort_order
                          \/ (r.sort_order = q.sort_order /\ r.id <= q.id)
         IN  <<first>> \o OrderExercises(rows \ {first})

\* ORDER BY set_number ASC, id ASC
RECURSIVE OrderSets(_)
OrderSets(rows) ==
    IF rows = {} THEN <<>>
    ELSE LET first == CHOOSE r \in rows : \A q \in rows :
                          \/ r.set_number < q.set_number
                          \/ (r.set_number = q.set_number /\ r.id <= q.id)
         IN  <<first>> \o OrderSets(rows \ {first})

\* SELECT id, name, sort_order FROM exercises WHERE workout_id = ? ORDER BY ...
SelectExercises(db, workout_id) ==
    OrderExercises({e \in db.exercises : e.workout_id = workout_id})

\* SELECT id, set_number, reps, weight FROM sets WHERE exercise_id = ? ORDER BY ...
SetDicts(rows) ==
    [i \in 1..Len(rows) |->
        [id |-> rows[i].id, set_number |-> rows[i].set_number,
         reps |-> rows[i].reps, weight |-> rows[i].weight]]

SelectSets(db, exercise_id) ==
    SetDicts(OrderSets({s \in db.sets : s.exercise_id = exercise_id}))

\* the dict appended to `exercises` for one exercises row
ExerciseDict(ex, setRows) ==
    [id |-> ex.id, name |-> ex.name, sort_order |-> ex.sort_order, sets |-> setRows]

\* COALESCE(title, '')
Coalesce(title) == IF title.t = "none" THEN <<>> ELSE title.s

\* the dict returned for a workouts row and its exercise dicts
WorkoutDict(w, exs) ==
    [found |-> TRUE, id |-> w.id, workout_date |-> w.workout_date,
     title |-> Coalesce(w.title), created_at |-> w.created_at,
     updated_at |-> w.updated_at, exercises |-> exs]

\* the None that get_workout returns for an unknown id
NotFound ==
    [found |-> FALSE, id |-> 0, workout_date |-> <<>>, title |-> <<>>,
     created_at |-> 0, updated_at |-> 0, exercises |-> <<>>]

\* the loop `for ex in exercises_rows` over the rows fetched
AssembleExercises(db, rows) ==
    [i \in 1..Len(rows) |-> ExerciseDict(rows[i], SelectSets(db, rows[i].id))]

\* get_workout run against one state of the database
get_workout(db, workout_id) ==
    IF \A w \in db.workouts : w.id # workout_id THEN NotFound
    ELSE WorkoutDict(CHOOSE r \in db.workouts : r.id = workout_id,
                     AssembleExercises(db, SelectExercises(db, workout_id)))

\* text comparison of two stored dates (BINARY collation: "-" sorts before the digits)
CharRank(c) == IF IsDigit(c) THEN DigitVal(c) + 1 ELSE 0

TextLess(a, b) ==
    \E i \in 1..(Len(b)) :
        /\ \A j \in 1..(i - 1) : j <= Len(a) /\ a[j] = b[j]
        /\ \/ i > Len(a)
           \/ i <= Len(a) /\ CharRank(a[i]) < CharRank(b[i])

\* FROM workouts w LEFT JOIN exercises e ON e.workout_id = w.id
\*                 LEFT JOIN sets s ON s.exercise_id = e.id
\* a joined row is [w, e, s]: the workouts row and the ids of the exercises and
\* sets rows joined to it, each <<id>> or <<>> for NULL
JoinRows(db) ==
    UNION {
        LET es == {e \in db.exercises : e.workout_id = w.id}
        IN  IF es = {} THEN {[w |-> w, e |-> <<>>, s |-> <<>>]}
            ELSE UNION {
                LET ss == {x \in db.sets : x.exercise_id = e.id}
                IN  IF ss = {} THEN {[w |-> w, e |-> <<e.id>>, s |-> <<>>]}
                    ELSE {[w |-> w, e |-> <<e.id>>, s |-> <<x.id>>] : x \in ss}
                : e \in es}
        : w \in db.workouts}

\* COUNT(e.id)
CountExerciseRows(group) == Cardinality({r \in group : r.e # <<>>})

\* COUNT(DISTINCT e.id)
ExerciseCount(group) == Cardinality({r.e : r \in group} \ {<<>>})

\* COUNT(s.id)
SetCount(group) == Cardinality({r \in group : r.s # <<>>})

\* one output row of GROUP BY w.id
Summary(w, group) ==
    [id |-> w.id, workout_date |-> w.workout_date, title |-> Coalesce(w.title),
     created_at |-> w.created_at, updated_at |-> w.updated_at,
     exercise_count |-> ExerciseCount(group), set_count |-> SetCount(group)]

\* ORDER BY w.workout_date DESC, w.id DESC
RECURSIVE OrderSummaries(_)
OrderSummaries(rows) ==
    IF rows = {} THEN <<>>
    ELSE LET first == CHOOSE r \in rows : \A q \in rows :
                          \/ TextLess(q.workout_date, r.workout_date)
                          \/ (q.workout_date = r.workout_date /\ q.id <= r.id)
         IN  <<first>> \o OrderSummaries(rows \ {first})

list_workouts(db) ==
    LET joined == JoinRows(db)
        groups == {r.w : r \in joined}
    IN  OrderSummaries({Summary(w, {r \in joined : r.w.id = w.id}) : w \in groups})

-----------------------------------------------------------------------------
(* The store as a state machine: calls of create_workout, update_workout   *)
(* and delete_workout, one after another, each on its own connection.      *)

MaxCalls == 3

LegPadded == <<" ", "L", "e", "g">>

\* accepted by the validator and by the store
PlainPayload == Payload(GoodDate, PyStr(LegPadded), List(<<GoodExercise>>))

\* accepted by both, with values the store converts
CoercedPayload ==
    Payload(PyStr(<<"2", "0", "2", "4", "-", "1", "-", "5">>), PyNone,
            List(<<Exercise(PyStr(BenchPadded),
                            List(<<SetEntry(PyFloat(57), PyStr(<<"1", ".", "5">>)),
                                   SetEntry(PyInt(1), PyInt(0))>>)),
                   Exercise(PyStr(Squat),
                            List(<<SetEntry(PyStr(<<" ", "7", " ">>), PyFloat(1355))>>))>>))

\* accepted by the validator, with a title that is not text
NumericTitlePayload == Payload(GoodDate, PyInt(5), List(<<GoodExercise>>))

\* accepted by the validator, with a NaN weight in the last set
NaNWeightPayload ==
    Payload(GoodDate, PyNone,
            List(<<Exercise(PyStr(Squat), List(<<GoodSet, SetEntry(PyInt(3), PyNaN)>>))>>))

\* rejected by the validator: no exercises
NoExercisesPayload == Payload(GoodDate, PyStr(Blank), List(<<>>))

\* rejected by the validator: reps < 1 in the last set of the last exercise
BadRepsPayload ==
    Payload(GoodDate, PyNone,
            List(<<GoodExercise,
                   Exercise(PyStr(BenchPadded),
                            List(<<GoodSet, SetEntry(PyInt(0), PyInt(10))>>))>>))

\* rejected by the validator: weight < 0 in the first set
BadWeightPayload ==
    Payload(GoodDate, PyNone,
            List(<<Exercise(PyStr(Squat), List(<<SetEntry(PyInt(5), PyInt(-1)), GoodSet>>))>>))

StorePayloads ==
    {PlainPayload, CoercedPayload, NumericTitlePayload, NaNWeightPayload,
     NoExercisesPayload, BadRepsPayload, BadWeightPayload}

\* the ids a caller may name: every id handed out so far and one never handed out
Ids == 1..(seq.workouts + 1)

Call(op, id, payload, out, dirty) ==
    [op |-> op, id |-> id, p |-> payload, exc |-> out.exc, ret |-> out.ret, dirty |-> dirty]

NoCall ==
    [op |-> "none", id |-> 0, p |-> NotAPayload, exc |-> "", ret |-> 0, dirty |-> FALSE]

\* the committed database after a call, and what a running get_workout could see of it
Commit(out) ==
    /\ workouts' = out.db.workouts
    /\ exercises' = out.db.exercises
    /\ sets' = out.db.sets
    /\ seq' = out.db.seq
    /\ clock' = clock + 1
    /\ gsnaps' = IF gpc \in {"exercises", "sets"}
                 THEN gsnaps \cup {get_workout(out.db, gid)}
                 ELSE gsnaps
    /\ UNCHANGED <<vin, vout, vpc, gpc, gid, gw, gex, gdone, gres>>

Create(payload) ==
    /\ clock < MaxCalls
    /\ LET out == create_workout(DB, payload, clock)
       IN  /\ Commit(out)
           /\ lastOp' = Call("create", out.ret, payload, out,
                             CreateBody(DB, payload, clock).db # DB)
    /\ bypassed' = (bypassed \/ ~Accepted(payload))

Update(id, payload) ==
    /\ clock < MaxCalls
    /\ LET out == update_workout(DB, id, payload, clock)
       IN  /\ Commit(out)
           /\ lastOp' = Call("update", id, payload, out,
                             UpdateBody(DB, id, payload, clock).db # DB)
    /\ bypassed' = (bypassed \/ ~Accepted(payload))

Delete(id) ==
    /\ clock < MaxCalls
    /\ LET out == delete_workout(DB, id)
       IN  /\ Commit(out)
           /\ lastOp' = Call("delete", id, NotAPayload, out, FALSE)
    /\ UNCHANGED bypassed

StoreInit ==
    /\ workouts = {}
    /\ exercises = {}
    /\ sets = {}
    /\ seq = [workouts |-> 0, exercises |-> 0, sets |-> 0]
    /\ lastOp = NoCall
    /\ clock = 0
    /\ bypassed = FALSE

ReaderInit ==
    /\ gpc = "idle"
    /\ gid = 0
    /\ gw = <<>>
    /\ gex = <<>>
    /\ gdone = <<>>
    /\ gres = NotFound
    /\ gsnaps = {}

Init ==
    /\ StoreInit
    /\ ReaderInit
    /\ vin = NotAPayload
    /\ vout = VOut("", <<>>)
    /\ vpc = "idle"

Next ==
    \/ \E payload \in StorePayloads : Create(payload)
    \/ \E id \in Ids, payload \in StorePayloads : Update(id, payload)
    \/ \E id \in Ids : Delete(id)

Spec == Init /\ [][Next]_vars

-----------------------------------------------------------------------------
(* The validator on its own: one call of validate_workout_payload on any   *)
(* of the inputs.                                                          *)

InitValidate ==
    /\ StoreInit
    /\ ReaderInit
    /\ vin \in ValidatorInputs
    /\ vout = VOut("", <<>>)
    /\ vpc = "call"

Validate ==
    /\ vpc = "call"
    /\ vout' = validate_workout_payload(vin)
    /\ vpc' = IF vout'.exc = "" THEN "returned" ELSE "raised"
    /\ UNCHANGED <<workouts, exercises, sets, seq, lastOp, clock, bypassed, vin,
                   gpc, gid, gw, gex, gdone, gres, gsnaps>>

NextValidate == Validate

SpecValidate == InitValidate /\ [][NextValidate]_vars

-----------------------------------------------------------------------------
(* A get_workout call running beside the writers.  get_workout opens no    *)
(* transaction: each of its SELECT statements reads the database as        *)
(* committed when that statement runs, and a writer may commit between     *)
(* two of them.  A writer's transaction is invisible until it commits.     *)

ConcPayloads == {PlainPayload, CoercedPayload}

\* SELECT ... FROM workouts WHERE id = ?, and `if w is None: return None`
GetStart(id) ==
    /\ gpc \in {"idle", "done"}
    /\ gid' = id
    /\ gsnaps' = {get_workout(DB, id)}
    /\ gex' = <<>>
    /\ gdone' = <<>>
    /\ IF \A w \in workouts : w.id # id
       THEN gw' = <<>> /\ gres' = NotFound /\ gpc' = "done"
       ELSE /\ gw' = <<CHOOSE w \in workouts : w.id = id>>
            /\ gres' = NotFound
            /\ gpc' = "exercises"
    /\ UNCHANGED <<workouts, exercises, sets, seq, lastOp, clock, bypassed, vin, vout, vpc>>

\* SELECT ... FROM exercises WHERE workout_id = ? ORDER BY sort_order, id
GetExercises ==
    /\ gpc = "exercises"
    /\ gex' = SelectExercises(DB, gid)
    /\ gpc' = "sets"
    /\ UNCHANGED <<workouts, exercises, sets, seq, lastOp, clock, bypassed, vin, vout, vpc,
                   gid, gw, gdone, gres, gsnaps>>

\* one round of `for ex in exercises_rows`: SELECT ... FROM sets WHERE exercise_id = ?
GetSets ==
    /\ gpc = "sets"
    /\ Len(gdone) < Len(gex)
    /\ gdone' = Append(gdone, ExerciseDict(gex[Len(gdone) + 1],
                                           SelectSets(DB, gex[Len(gdone) + 1].id)))
    /\ UNCHANGED <<workouts, exercises, sets, seq, lastOp, clock, bypassed, vin, vout, vpc,
                   gpc, gid, gw, gex, gres, gsnaps>>

\* the return of the assembled dict
GetReturn ==
    /\ gpc = "sets"
    /\ Len(gdone) = Len(gex)
    /\ gres' = WorkoutDict(gw[1], gdone)
    /\ gpc' = "done"
    /\ UNCHANGED <<workouts, exercises, sets, seq, lastOp, clock, bypassed, vin, vout, vpc,
                   gid, gw, gex, gdone, gsnaps>>

NextConc ==
    \/ \E payload \in ConcPayloads : Create(payload)
    \/ \E id \in Ids, payload \in ConcPayloads : Update(id, payload)
    \/ \E id \in Ids : Delete(id)
    \/ \E id \in Ids : GetStart(id)
    \/ GetExercises
    \/ GetSets
    \/ GetReturn

SpecConc == Init /\ [][NextConc]_vars

-----------------------------------------------------------------------------
(* Properties *)

\* the numeric value of a payload field v is exactly the stored number
SameNumber(v, stored) == FloatOf(v).exc = "" /\ FloatOf(v).v = FloatOf(stored).v

\* the stored integer k is the payload field v with its fraction dropped
TruncatedTo(v, k) ==
    /\ FloatOf(v).exc = ""
    /\ FloatOf(v).v.t = "float"
    /\ 10 * k <= FloatOf(v).v.n
    /\ FloatOf(v).v.n < 10 * k + 10

\* tree holds the payload's exercises and sets, in the payload's order, numbered
\* from 1 by position, with the names stripped; reps(v, k) relates a payload reps
\* field to the stored reps
TreeHolds(tree, payload, reps(_, _)) ==
    /\ tree.found
    /\ payload.exercises.kind = "list"
    /\ Len(tree.exercises) = Len(payload.exercises.items)
    /\ \A i \in 1..Len(tree.exercises) :
        LET got == tree.exercises[i]
            ex == payload.exercises.items[i]
        IN  /\ got.sort_order = i
            /\ got.name = Strip(ex.name.s)
            /\ Len(got.sets) = Len(ex.sets.items)
            /\ \A j \in 1..Len(got.sets) :
                /\ got.sets[j].set_number = j
                /\ reps(ex.sets.items[j].reps, got.sets[j].reps)
                /\ SameNumber(ex.sets.items[j].weight, got.sets[j].weight)

RepsEqual(v, k) == SameNumber(v, PyInt(k))

\* C1: for every payload the validator accepts, create returns an id and get of
\* that id returns the payload's exercises and sets, in order, numbered from 1,
\* with stripped names and with reps and weights equal to the payload's values,
\* whatever calls came before.
RoundTrip ==
    (lastOp.op = "create" /\ Accepted(lastOp.p))
        => /\ lastOp.exc = ""
           /\ TreeHolds(get_workout(DB, lastOp.ret), lastOp.p, RepsEqual)

UpdateStep ==
    /\ clock' # clock
    /\ lastOp'.op = "update"
    /\ lastOp'.exc = ""
    /\ lastOp'.ret = 1

\* no exercises row of the workout's prior state, and no sets row of such an
\* exercise, is in the database after the step
NoResidue(workout_id) ==
    LET old == {e \in exercises : e.workout_id = workout_id}
    IN  /\ \A e \in old : \A f \in exercises' : f.id # e.id
        /\ \A x \in sets : (\E e \in old : x.exercise_id = e.id)
                            => \A y \in sets' : y.id # x.id

\* C2, as stated: after a successful update(id, P2), get(id) returns exactly P2's
\* exercises and sets (values equal to P2's, same order, numbered from 1) and no
\* exercise or set row of the prior state remains.
UpdateReplacesExactly ==
    [][UpdateStep => /\ TreeHolds(get_workout(DB', lastOp'.id), lastOp'.p, RepsEqual)
                     /\ NoResidue(lastOp'.id)]_vars

\* C2, amended: after a successful update(id, P2), get(id) returns P2's exercises
\* and sets in P2's order, numbered from 1, each name stripped, each reps
\* converted by int() (a fraction is dropped) and each weight by float(), and no
\* exercise or set row of the prior state remains.
UpdateReplaces ==
    [][UpdateStep => /\ TreeHolds(get_workout(DB', lastOp'.id), lastOp'.p, TruncatedTo)
                     /\ NoResidue(lastOp'.id)]_vars

\* a successful update to one exercise of a workout that had two, with fractional
\* reps written before
UpdateReplacesWitness ==
    /\ lastOp.op = "update" /\ lastOp.exc = "" /\ lastOp.ret = 1
    /\ lastOp.p = PlainPayload
    /\ Cardinality(workouts) = 1
    /\ Cardinality(exercises) = 1
    /\ seq.exercises = 3

DeleteStep ==
    /\ clock' # clock
    /\ lastOp'.op = "delete"
    /\ lastOp'.ret = 1

\* C3: after delete(id) returns true, get(id) is not-found, no exercises row
\* references id, no sets row references an exercise that belonged to it, and
\* the tree of every other workout is unchanged.
DeleteCascades ==
    [][DeleteStep =>
        /\ get_workout(DB', lastOp'.id) = NotFound
        /\ \A e \in exercises' : e.workout_id # lastOp'.id
        /\ \A e \in exercises : e.workout_id = lastOp'.id
                                 => \A x \in sets' : x.exercise_id # e.id
        /\ \A w \in workouts : w.id # lastOp'.id
                                => get_workout(DB', w.id) = get_workout(DB, w.id)]_vars

\* a delete that returned true and left another workout, with its sets, in place
DeleteCascadesWitness ==
    /\ lastOp.op = "delete" /\ lastOp.ret = 1
    /\ seq.exercises >= 3
    /\ \E w \in workouts : Len(get_workout(DB, w.id).exercises) = 2

FailedStep ==
    /\ clock' # clock
    /\ lastOp'.op \in {"create", "update"}
    /\ lastOp'.exc # ""

\* C4: when a statement inside create or update fails, at whatever position, the
\* committed database after the call equals the one before it.
AtomicWrites == [][FailedStep => DB' = DB]_vars

\* an update that failed on a constraint after it had rewritten rows
AtomicWritesWitness ==
    /\ lastOp.op = "update"
    /\ lastOp.exc = "IntegrityError"
    /\ lastOp.dirty
    /\ lastOp.p \in {BadRepsPayload, NaNWeightPayload}
    /\ \E w \in workouts : w.id = lastOp.id /\ Len(get_workout(DB, w.id).exercises) = 2

\* C5: a get(id) beside writers of the same workout returns the complete tree
\* of one committed state (or not-found), never a mixture, and never an
\* exercise with an empty set list.
ReadIsAtomic ==
    gpc = "done" => /\ gres \in gsnaps
                    /\ \A i \in 1..Len(gres.exercises) : gres.exercises[i].sets # <<>>

\* the constraints C6 names, read off the payload
RepsDefect(v) == IntOf(v).exc # "" \/ NumLess(FloatOf(v).v, 1)

WeightDefect(v) == FloatOf(v).exc # "" \/ NumLess(FloatOf(v).v, 0)

SetDefect(s) == s.kind # "dict" \/ RepsDefect(s.reps) \/ WeightDefect(s.weight)

ExerciseDefect(ex) ==
    \/ ex.kind # "dict"
    \/ NameOf(ex) = <<>>
    \/ ex.sets.kind # "list"
    \/ ex.sets.items = <<>>
    \/ \E j \in 1..Len(ex.sets.items) : SetDefect(ex.sets.items[j])

Defective(payload) ==
    \/ payload.kind # "dict"
    \/ ParseIsoDate(payload.workout_date).t # "str"
    \/ payload.exercises.kind # "list"
    \/ payload.exercises.items = <<>>
    \/ \E i \in 1..Len(payload.exercises.items) : ExerciseDefect(payload.exercises.items[i])

\* C6: validate returns a non-empty list for every payload with a defect (date,
\* no exercises, empty name, no sets, reps < 1, weight < 0, not a number) and
\* the empty list for every payload with none.
ValidatorDecision ==
    vpc # "call" => /\ vpc = "returned"
                    /\ Defective(vin) <=> vout.errors # <<>>

\* whenever validate returns, its list is non-empty exactly for the payloads
\* with a defect
DecisionWhenReturned ==
    vpc = "returned" => (Defective(vin) <=> vout.errors # <<>>)

\* C7: validate returns a list for every input and never raises.
NeverRaises == vpc # "raised"

\* every workout has exercises numbered 1..n and every exercise sets numbered 1..m,
\* with n >= 1 and m >= 1
Dense(db) ==
    \A w \in db.workouts :
        LET es == {e \in db.exercises : e.workout_id = w.id}
        IN  /\ es # {}
            /\ \A k \in 1..Cardinality(es) :
                   Cardinality({e \in es : e.sort_order = k}) = 1
            /\ \A e \in es :
                LET ss == {x \in db.sets : x.exercise_id = e.id}
                IN  /\ ss # {}
                    /\ \A k \in 1..Cardinality(ss) :
                           Cardinality({x \in ss : x.set_number = k}) = 1

\* C8: after any committed creates, updates and deletes whose payloads all passed
\* validate, every workout has exercises with sort_order exactly 1..n, n >= 1,
\* and every exercise has sets with set_number exactly 1..m, m >= 1.
AggregateInvariant == ~bypassed => Dense(DB)

\* validated calls only, the last a successful update, and a workout with two
\* exercises stored
AggregateWitness ==
    /\ ~bypassed
    /\ lastOp.op = "update" /\ lastOp.exc = "" /\ lastOp.ret = 1
    /\ \E w \in workouts : Cardinality({e \in exercises : e.workout_id = w.id}) = 2

\* C9: list() returns exactly one summary per stored workout, whose
\* exercise_count is the number of its exercises rows and whose set_count is
\* the number of sets rows of all its exercises.
ListCounts ==
    /\ Len(list_workouts(DB)) = Cardinality(workouts)
    /\ \A w \in workouts :
        \E i \in 1..Len(list_workouts(DB)) :
            /\ list_workouts(DB)[i].id = w.id
            /\ list_workouts(DB)[i].exercise_count =
                   Cardinality({e \in exercises : e.workout_id = w.id})
            /\ list_workouts(DB)[i].set_count =
                   Cardinality({x \in sets : \E e \in exercises :
                                    e.workout_id = w.id /\ x.exercise_id = e.id})

\* a workout with no exercises beside one with two exercises and three sets
ListCountsWitness ==
    /\ \E w \in workouts : \A e \in exercises : e.workout_id # w.id
    /\ \E w \in workouts :
        /\ Cardinality({e \in exercises : e.workout_id = w.id}) = 2
        /\ Cardinality({x \in sets : \E e \in exercises :
                            e.workout_id = w.id /\ x.exercise_id = e.id}) = 3

\* C10: for every payload the validator accepts, whatever its title, create
\* completes and returns the id of a new workout, and update of an existing id
\* completes and returns true.
ValidationSuffices ==
    (lastOp.op \in {"create", "update"} /\ Accepted(lastOp.p))
        => /\ lastOp.exc = ""
           /\ lastOp.op = "create" => \E w \in workouts : w.id = lastOp.ret

=============================================================================
